---- MODULE Spec2Model ----
(***************************************************************************)
(* mcstat: the terminal table renderer (src/src/output.rs), the Minecraft  *)
(* markup writer (src/src/lib.rs print_mc_formatted and                     *)
(* McFormatContent::write_to) and the list helper get_table.                *)
(*                                                                         *)
(* Text is a sequence of characters; a character is a one-character        *)
(* string.  Four characters stand for classes of code points:              *)
(*   "$"  the sentinel U+00A7 (2 bytes in UTF-8, 1 column)                  *)
(*   "E"  a non-ASCII narrow character such as U+00E9 (2 bytes, 1 column)   *)
(*   "W"  a double-width character such as U+65E5 (3 bytes, 2 columns)      *)
(*   "\n" the line feed (1 byte, no column)                                 *)
(* Every other character is ASCII (1 byte, 1 column).  What reaches a sink *)
(* is a sequence of units: characters, and the terminal commands of        *)
(* crossterm, each written "<...>".                                         *)
(***************************************************************************)
EXTENDS Integers, Sequences, FiniteSets, TLC

VARIABLES
    entries,            \* Table.entries, in append order
    small_entry_width,  \* Table.small_entry_width
    max_block_width,    \* the ceiling main.rs stores in the table
    pc,                 \* "build" while the table is populated, "done" after the operation
    sink,               \* the Write the operation wrote to, and what it holds
    ends,               \* length of the sink after each entry Table::print completed
    ret,                \* what the operation returned
    s,                  \* the marked-up string of the markup specification
    pairs,              \* the (left, right) pairs given to get_table
    second_column,      \* get_table's flag
    overflow_checks     \* whether the build panics on integer overflow (debug) or wraps (release)

vars == <<entries, small_entry_width, max_block_width, pc, sink, ends, ret,
          s, pairs, second_column, overflow_checks>>

-----------------------------------------------------------------------------
(* Bounds of the model *)

MaxEntries == 2     \* entries appended to a table
MaxCap == 3         \* largest capacity of a bounded sink, in units
UsizeBits == 5      \* usize is modelled UsizeBits wide, so that a wrapped value can be written out
MaxLen == 3         \* length of a marked-up string
MaxPairs == 2       \* pairs given to get_table

-----------------------------------------------------------------------------
(* Characters and strings *)

SENTINEL == "$"
NL == "\n"

Max(a, b) == IF a >= b THEN a ELSE b
Min(a, b) == IF a <= b THEN a ELSE b

RECURSIVE Pow2(_)
Pow2(n) == IF n = 0 THEN 1 ELSE 2 * Pow2(n - 1)

UsizeModulus == Pow2(UsizeBits)

\* unicode_width: columns of one unit; a terminal command takes none
CharWidth(c) ==
    IF c = "W" THEN 2
    ELSE IF c = NL \/ Len(c) > 1 THEN 0
    ELSE 1

\* UTF-8 length of one character
len_utf8(c) ==
    IF c = "W" THEN 3
    ELSE IF c = "E" \/ c = SENTINEL THEN 2
    ELSE 1

\* UnicodeWidthStr::width
RECURSIVE str_width(_)
str_width(t) == IF t = <<>> THEN 0 ELSE CharWidth(Head(t)) + str_width(Tail(t))

RECURSIVE Count(_, _)
Count(t, c) ==
    IF t = <<>> THEN 0
    ELSE (IF Head(t) = c THEN 1 ELSE 0) + Count(Tail(t), c)

Repeat(c, n) == [i \in 1..n |-> c]

RECURSIVE Flatten(_)
Flatten(ss) == IF ss = <<>> THEN <<>> ELSE Head(ss) \o Flatten(Tail(ss))

\* str::split(c): the pieces between the occurrences of c, always at least one
RECURSIVE split(_, _)
split(t, c) ==
    IF \A i \in 1..Len(t) : t[i] # c THEN <<t>>
    ELSE LET k == CHOOSE i \in 1..Len(t) : t[i] = c /\ \A j \in 1..(i - 1) : t[j] # c
         IN <<SubSeq(t, 1, k - 1)>> \o split(SubSeq(t, k + 1, Len(t)), c)

\* str::lines(): the pieces between line feeds, without a last empty piece
lines(t) ==
    LET p == split(t, NL)
    IN IF p[Len(p)] = <<>> THEN SubSeq(p, 1, Len(p) - 1) ELSE p

RECURSIVE SeqMax(_)
SeqMax(ns) == IF ns = <<>> THEN 0 ELSE Max(Head(ns), SeqMax(Tail(ns)))

-----------------------------------------------------------------------------
(* The sink: a std::io::Write.  A bounded sink accepts cap units in all and  *)
(* then either accepts nothing (write returns Ok(0), as a full &mut [u8]    *)
(* does) or fails (write returns Err, as a closed pipe does); an unbounded  *)
(* sink is a Vec<u8>.  st is the result of the last call, nerr counts the   *)
(* calls that returned Err and late the write calls made after one did.     *)
(* flush always succeeds on these sinks.                                    *)

NewSink(bounded, cap, zero) ==
    [bounded |-> bounded, cap |-> cap, zero |-> zero, data |-> <<>>, nerr |-> 0, late |-> 0,
     st |-> "Ok"]

VecSink == NewSink(FALSE, 0, FALSE)

Sinks ==
    {NewSink(TRUE, c, z) : c \in 0..MaxCap, z \in BOOLEAN} \cup {VecSink}

Late(sk) == IF sk.nerr > 0 THEN 1 ELSE 0

Room(sk, buf) == IF sk.bounded THEN Min(sk.cap - Len(sk.data), Len(buf)) ELSE Len(buf)

\* Write::write, one call: Ok(n) with the n units the sink took, or Err
write(sk, buf) ==
    LET n == Room(sk, buf)
    IN IF n > 0 \/ buf = <<>> \/ sk.zero
       THEN [sk EXCEPT !.data = @ \o SubSeq(buf, 1, n), !.st = "Ok", !.late = @ + Late(sk)]
       ELSE [sk EXCEPT !.st = "Err", !.nerr = @ + 1, !.late = @ + Late(sk)]

\* Write::write_all: write until the buffer is empty; Ok(0) is ErrorKind::WriteZero
write_all(sk, buf) ==
    LET n == Room(sk, buf)
        taken == [sk EXCEPT !.data = @ \o SubSeq(buf, 1, n), !.late = @ + Late(sk)]
    IN IF n = Len(buf) THEN [taken EXCEPT !.st = "Ok"]
       ELSE [taken EXCEPT !.st = IF sk.zero THEN "WriteZero" ELSE "Err", !.nerr = @ + 1]

\* what an entry or a content does to the sink, in order
WriteAll(buf) == [op |-> "write_all", buf |-> buf]
WriteOnce(buf) == [op |-> "write", buf |-> buf]
Flush == [op |-> "flush", buf |-> <<>>]
Panic == [op |-> "panic", buf |-> <<>>]

Step(sk, o) ==
    IF o.op = "write_all" THEN write_all(sk, o.buf)
    ELSE IF o.op = "write" THEN write(sk, o.buf)
    ELSE IF o.op = "panic" THEN [sk EXCEPT !.st = "Panic"]
    ELSE [sk EXCEPT !.st = "Ok"]

\* the ? operator: the first call that does not return Ok ends the function
RECURSIVE Run(_, _)
Run(sk, ops) ==
    IF ops = <<>> THEN sk
    ELSE LET r == Step(sk, Head(ops))
         IN IF r.st = "Ok" THEN Run(r, Tail(ops)) ELSE r

-----------------------------------------------------------------------------
(* TableContent: String and McFormatContent *)

Plain(t) == [mc |-> FALSE, text |-> t]
Mc(t) == [mc |-> TRUE, text |-> t]

RECURSIVE MapWidth(_)
MapWidth(ls) == IF ls = <<>> THEN <<>> ELSE <<str_width(Head(ls))>> \o MapWidth(Tail(ls))

\* impl TableContent for String: width
String_width(t) == [panic |-> FALSE, val |-> SeqMax(MapWidth(lines(t)))]

\* impl TableContent for String: write_to
String_write_to(t) == <<WriteAll(t)>>

\* l.chars().count() - l.matches(SENTINEL).count() * 2 in usize
McLineWidth(l) == Len(l) - Count(l, SENTINEL) * 2

RECURSIVE MapMcWidth(_)
MapMcWidth(ls) ==
    IF ls = <<>> THEN <<>> ELSE <<McLineWidth(Head(ls)) % UsizeModulus>> \o MapMcWidth(Tail(ls))

\* impl TableContent for McFormatContent: width.  A subtraction below zero
\* panics when the build checks overflow and wraps when it does not.
McFormatContent_width(t, oc) ==
    LET ls == lines(t)
    IN IF oc /\ \E i \in 1..Len(ls) : McLineWidth(ls[i]) < 0
       THEN [panic |-> TRUE, val |-> 0]
       ELSE [panic |-> FALSE, val |-> SeqMax(MapMcWidth(ls))]

\* the match on the code character
Colors ==
    [c \in {"0", "1", "2", "3", "4", "5", "6", "7", "8", "9", "a", "b", "c", "d", "e", "f"} |->
        CASE c = "0" -> "<fg Black>"     [] c = "1" -> "<fg DarkBlue>"
          [] c = "2" -> "<fg DarkGreen>" [] c = "3" -> "<fg DarkCyan>"
          [] c = "4" -> "<fg DarkRed>"   [] c = "5" -> "<fg DarkMagenta>"
          [] c = "6" -> "<fg DarkYellow>" [] c = "7" -> "<fg Grey>"
          [] c = "8" -> "<fg DarkGrey>"  [] c = "9" -> "<fg Blue>"
          [] c = "a" -> "<fg Green>"     [] c = "b" -> "<fg Cyan>"
          [] c = "c" -> "<fg Red>"       [] c = "d" -> "<fg Magenta>"
          [] c = "e" -> "<fg Yellow>"    [] c = "f" -> "<fg White>"]

Attributes ==
    [c \in {"k", "l", "m", "n", "o"} |->
        CASE c = "k" -> "<at RapidBlink>" [] c = "l" -> "<at Bold>"
          [] c = "m" -> "<at CrossedOut>" [] c = "n" -> "<at Underlined>"
          [] c = "o" -> "<at Italic>"]

ResetColor == "<reset>"

\* exec!(action): out.execute(action)? writes the command and flushes
exec(units) == <<WriteAll(units), Flush>>

CodeCommand(c) ==
    IF c \in DOMAIN Colors THEN exec(<<Colors[c]>>)
    ELSE IF c \in DOMAIN Attributes THEN exec(<<Attributes[c]>>)
    ELSE IF c = "r" THEN exec(<<ResetColor>>)
    ELSE <<>>

\* the body of the loop over the pieces after the first: the command of the
\* code character, then &split[1..], which panics when byte 1 is inside the
\* code character
SplitOps(piece) ==
    IF piece = <<>> THEN <<>>
    ELSE CodeCommand(Head(piece)) \o
         (IF len_utf8(Head(piece)) > 1 THEN <<Panic>> ELSE exec(Tail(piece)))

RECURSIVE SplitsOps(_)
SplitsOps(ps) == IF ps = <<>> THEN <<>> ELSE SplitOps(Head(ps)) \o SplitsOps(Tail(ps))

\* impl TableContent for McFormatContent: write_to
McFormatContent_write_to(t) ==
    LET splits == split(t, SENTINEL)
    IN exec(Head(splits)) \o SplitsOps(Tail(splits)) \o
       (IF Len(splits) > 1 THEN exec(<<ResetColor>>) ELSE <<>>)

\* lib.rs print_mc_formatted(s, out): the same text as McFormatContent::write_to
print_mc_formatted(t, out) == Run(out, McFormatContent_write_to(t))

content_width(c, oc) ==
    IF c.mc THEN McFormatContent_width(c.text, oc) ELSE String_width(c.text)

content_write_to(c) ==
    IF c.mc THEN McFormatContent_write_to(c.text) ELSE String_write_to(c.text)

-----------------------------------------------------------------------------
(* Table entries and their print *)

SmallTableEntry(name, val) == [kind |-> "small", name |-> name, val |-> val]
BigTableEntry(name, val) == [kind |-> "big", name |-> name, val |-> val]
BlankTableEntry == [kind |-> "blank", name |-> <<>>, val |-> Plain(<<>>)]

\* core::fmt padding counts characters: {:fill<width$}
PadLeftAligned(name, fill, width) == name \o Repeat(fill, Max(width - Len(name), 0))

\* {:fill^width$}: the padding is split padding/2 before and (padding+1)/2 after
PadCentered(name, fill, width) ==
    LET padding == Max(width - Len(name), 0)
    IN Repeat(fill, padding \div 2) \o name \o Repeat(fill, (padding + 1) \div 2)

\* impl TableEntry for SmallTableEntry
SmallTableEntry_print(e, width) ==
    <<WriteAll(PadLeftAligned(e.name, " ", width) \o <<" ", "|", " ">>)>>
    \o content_write_to(e.val)
    \o <<WriteAll(<<NL>>)>>

\* impl TableEntry for BigTableEntry
BigTableEntry_print(e, oc) ==
    LET vw == content_width(e.val, oc)
        width == Max(vw.val, str_width(e.name) + 4)
    IN IF vw.panic THEN <<Panic>>
       ELSE <<WriteAll(PadCentered(e.name, "=", width) \o <<NL>>)>>
            \o content_write_to(e.val)
            \o <<WriteAll(<<NL>> \o PadLeftAligned(<<>>, "=", width) \o <<NL>>)>>

\* impl TableEntry for BlankTableEntry: a single write, its count dropped
BlankTableEntry_print == <<WriteOnce(<<NL>>)>>

\* e.print(out, table)
TableEntry_print(e, width, oc, out) ==
    Run(out,
        IF e.kind = "small" THEN SmallTableEntry_print(e, width)
        ELSE IF e.kind = "big" THEN BigTableEntry_print(e, oc)
        ELSE BlankTableEntry_print)

\* Table::print with the result of e.print dropped instead of returned by ?
RECURSIVE PrintLoopIgnoringErr(_, _, _, _)
PrintLoopIgnoringErr(es, width, oc, acc) ==
    IF es = <<>> THEN [out |-> [acc.out EXCEPT !.st = "Ok"], ends |-> acc.ends]
    ELSE LET r == TableEntry_print(Head(es), width, oc, acc.out)
         IN IF r.st = "Panic" THEN [out |-> r, ends |-> acc.ends]
            ELSE PrintLoopIgnoringErr(Tail(es), width, oc,
                                      [out |-> r, ends |-> Append(acc.ends, Len(r.data))])

\* the loop of Table::print over the entries es not yet printed; acc is the
\* sink and the sink's length after each entry printed so far
RECURSIVE PrintLoop(_, _, _, _)
PrintLoop(es, width, oc, acc) ==
    IF es = <<>> THEN acc
    ELSE LET r == TableEntry_print(Head(es), width, oc, acc.out)
         IN IF r.st # "Ok" THEN [out |-> r, ends |-> acc.ends]
            ELSE PrintLoop(Tail(es), width, oc,
                           [out |-> r, ends |-> Append(acc.ends, Len(r.data))])

\* Table::print
Table_print(es, width, oc, out) == PrintLoop(es, width, oc, [out |-> out, ends |-> <<>>])

\* set_small_width without its comparison
set_small_width_unguarded(current, width) == width

\* Table::set_small_width
set_small_width(current, width) == IF width > current THEN width ELSE current

-----------------------------------------------------------------------------
(* The table: built by appends, then printed once *)

Labels == {<<"a">>, <<"W">>, <<"a", "b", "c">>}

Contents ==
    {Plain(<<"a", "b">>), Plain(<<"W", "W", "W", NL, "a">>),
     Mc(<<SENTINEL, "a", "b">>), Mc(<<SENTINEL>>), Mc(<<SENTINEL, "E">>)}

TermWidths == {4}

Unbounded == UsizeModulus - 1

NoRet == [op |-> "none", st |-> "Ok", val |-> 0, text |-> <<>>]

\* Table::new, before any operation
Init ==
    /\ entries = <<>>
    /\ small_entry_width = 0
    /\ max_block_width = Unbounded
    /\ overflow_checks \in BOOLEAN
    /\ pc = "build"
    /\ sink = VecSink
    /\ ends = <<>>
    /\ ret = NoRet
    /\ s = <<>>
    /\ pairs = <<>>
    /\ second_column = FALSE

\* main.rs: table.max_block_width = w, right after Table::new
SetMaxBlockWidth ==
    /\ pc = "build"
    /\ entries = <<>>
    /\ max_block_width = Unbounded
    /\ \E w \in TermWidths : max_block_width' = w
    /\ UNCHANGED <<entries, small_entry_width, pc, sink, ends, ret, s, pairs,
                   second_column, overflow_checks>>

\* Table::small_entry
small_entry ==
    /\ pc = "build"
    /\ Len(entries) < MaxEntries
    /\ \E name \in Labels, val \in Contents :
          /\ small_entry_width' = set_small_width(small_entry_width, str_width(name))
          /\ entries' = Append(entries, SmallTableEntry(name, val))
    /\ UNCHANGED <<max_block_width, pc, sink, ends, ret, s, pairs, second_column,
                   overflow_checks>>

\* Table::big_entry
big_entry ==
    /\ pc = "build"
    /\ Len(entries) < MaxEntries
    /\ \E name \in Labels, val \in Contents :
          entries' = Append(entries, BigTableEntry(name, val))
    /\ UNCHANGED <<small_entry_width, max_block_width, pc, sink, ends, ret, s, pairs,
                   second_column, overflow_checks>>

\* Table::blank
blank ==
    /\ pc = "build"
    /\ Len(entries) < MaxEntries
    /\ entries' = Append(entries, BlankTableEntry)
    /\ UNCHANGED <<small_entry_width, max_block_width, pc, sink, ends, ret, s, pairs,
                   second_column, overflow_checks>>

\* Table::print(out), for every sink
print ==
    /\ pc = "build"
    /\ \E out \in Sinks :
          LET r == Table_print(entries, small_entry_width, overflow_checks, out)
          IN /\ sink' = r.out
             /\ ends' = r.ends
             /\ ret' = [op |-> "print", st |-> r.out.st, val |-> 0, text |-> <<>>]
    /\ pc' = "done"
    /\ UNCHANGED <<entries, small_entry_width, max_block_width, s, pairs, second_column,
                   overflow_checks>>

Next == SetMaxBlockWidth \/ small_entry \/ big_entry \/ blank \/ print

Spec == Init /\ [][Next]_vars

-----------------------------------------------------------------------------
(* The markup writer and the width of marked-up text, on every string *)

McAlphabet == {"a", "r", "x", SENTINEL, "E", "W", NL}

Strings(alphabet, n) == UNION {[1..k -> alphabet] : k \in 0..n}

InitFmt ==
    /\ entries = <<>>
    /\ small_entry_width = 0
    /\ max_block_width = Unbounded
    /\ overflow_checks \in BOOLEAN
    /\ pc = "build"
    /\ sink = VecSink
    /\ ends = <<>>
    /\ ret = NoRet
    /\ s \in Strings(McAlphabet, MaxLen)
    /\ pairs = <<>>
    /\ second_column = FALSE

\* McFormatContent(s).write_to(out), for every sink
write_to ==
    /\ pc = "build"
    /\ \E out \in Sinks :
          LET r == Run(out, McFormatContent_write_to(s))
          IN /\ sink' = r
             /\ ret' = [op |-> "write_to", st |-> r.st, val |-> 0, text |-> <<>>]
    /\ pc' = "done"
    /\ UNCHANGED <<entries, small_entry_width, max_block_width, ends, s, pairs,
                   second_column, overflow_checks>>

\* print_mc_formatted(s, out), for every sink
call_print_mc_formatted ==
    /\ pc = "build"
    /\ \E out \in Sinks :
          LET r == print_mc_formatted(s, out)
          IN /\ sink' = r
             /\ ret' = [op |-> "print_mc_formatted", st |-> r.st, val |-> 0, text |-> <<>>]
    /\ pc' = "done"
    /\ UNCHANGED <<entries, small_entry_width, max_block_width, ends, s, pairs,
                   second_column, overflow_checks>>

\* McFormatContent(s).width()
width ==
    /\ pc = "build"
    /\ LET r == McFormatContent_width(s, overflow_checks)
       IN ret' = [op |-> "width", st |-> IF r.panic THEN "Panic" ELSE "Ok",
                  val |-> r.val, text |-> <<>>]
    /\ pc' = "done"
    /\ UNCHANGED <<entries, small_entry_width, max_block_width, sink, ends, s, pairs,
                   second_column, overflow_checks>>

NextFmt == write_to \/ call_print_mc_formatted \/ width

SpecFmt == InitFmt /\ [][NextFmt]_vars

\* remove_formatting, the strip of the markup: every sentinel goes with the
\* character after it
RECURSIVE remove_formatting(_)
remove_formatting(t) ==
    IF t = <<>> THEN <<>>
    ELSE IF Head(t) = SENTINEL THEN remove_formatting(SubSeq(t, 3, Len(t)))
    ELSE <<Head(t)>> \o remove_formatting(Tail(t))

-----------------------------------------------------------------------------
(* get_table *)

RECURSIVE Intersperse(_, _)
Intersperse(ts, sep) ==
    IF Len(ts) <= 1 THEN ts
    ELSE <<Head(ts), sep>> \o Intersperse(Tail(ts), sep)

RECURSIVE Lefts(_)
Lefts(ps) == IF ps = <<>> THEN <<>> ELSE <<Head(ps)[1]>> \o Lefts(Tail(ps))

\* the table get_table builds: one small entry per pair
RECURSIVE PairsTable(_)
PairsTable(ps) ==
    IF ps = <<>> THEN [entries |-> <<>>, small_entry_width |-> 0]
    ELSE LET t == PairsTable(SubSeq(ps, 1, Len(ps) - 1))
             entry == ps[Len(ps)]
         IN [entries |-> Append(t.entries, SmallTableEntry(entry[1], Plain(entry[2]))),
             small_entry_width |-> set_small_width(t.small_entry_width, str_width(entry[1]))]

\* get_table(entries, second_column): the table printed to a Vec, or the
\* left values with a line feed between them
get_table(ps, second) ==
    IF second
    THEN LET table == PairsTable(ps)
             r == Table_print(table.entries, table.small_entry_width, FALSE, VecSink)
         IN [st |-> IF r.out.st = "Ok" THEN "Ok" ELSE "Panic", text |-> r.out.data]
    ELSE [st |-> "Ok", text |-> Flatten(Intersperse(Lefts(ps), <<NL>>))]

Rights == {<<"1">>, <<"W", "2">>}

PairLists == UNION {[1..k -> Labels \X Rights] : k \in 0..MaxPairs}

InitList ==
    /\ entries = <<>>
    /\ small_entry_width = 0
    /\ max_block_width = Unbounded
    /\ overflow_checks = FALSE
    /\ pc = "build"
    /\ sink = VecSink
    /\ ends = <<>>
    /\ ret = NoRet
    /\ s = <<>>
    /\ pairs \in PairLists
    /\ second_column \in BOOLEAN

call_get_table ==
    /\ pc = "build"
    /\ LET r == get_table(pairs, second_column)
       IN ret' = [op |-> "get_table", st |-> r.st, val |-> 0, text |-> r.text]
    /\ pc' = "done"
    /\ UNCHANGED <<entries, small_entry_width, max_block_width, sink, ends, s, pairs,
                   second_column, overflow_checks>>

NextList == call_get_table

SpecList == InitList /\ [][NextList]_vars

-----------------------------------------------------------------------------
(* The claims *)

IsPrefix(a, b) == Len(a) <= Len(b) /\ SubSeq(b, 1, Len(a)) = a

IsText(u) == Len(u) = 1

\* what a terminal shows: the units that are no command
RemoveCommands(d) == SelectSeq(d, IsText)

\* what entry i of the printed table put in the sink
Segment(i) == SubSeq(sink.data, (IF i = 1 THEN 0 ELSE ends[i - 1]) + 1, ends[i])

FirstLine(seg) == Head(split(seg, NL))

LastLine(seg) == LET ls == lines(seg) IN ls[Len(ls)]

\* name followed by spaces up to w display columns
PadToWidth(name, w) == name \o Repeat(" ", Max(w - str_width(name), 0))

RECURSIVE MapStrippedWidth(_)
MapStrippedWidth(ls) ==
    IF ls = <<>> THEN <<>>
    ELSE <<str_width(remove_formatting(Head(ls)))>> \o MapStrippedWidth(Tail(ls))

\* the display width of marked-up text: the widest line, its codes removed
StrippedWidth(t) == SeqMax(MapStrippedWidth(lines(t)))

\* the display width of a content, as the layout is specified to see it
DisplayWidth(c) == IF c.mc THEN StrippedWidth(c.text) ELSE SeqMax(MapWidth(lines(c.text)))

Printed == pc = "done" /\ ret.op = "print"

Failed == ret.st \in {"Err", "WriteZero"}

\* C1: the header line and the closing line of every printed block entry are
\* min(max_block_width, max(width(label) + 4, width(content))) columns wide
C1_BlockWidth ==
    Printed =>
        \A i \in 1..Len(ends) :
            entries[i].kind = "big" =>
                LET w == Min(max_block_width,
                             Max(str_width(entries[i].name) + 4, DisplayWidth(entries[i].val)))
                IN /\ str_width(FirstLine(Segment(i))) = w
                   /\ str_width(LastLine(Segment(i))) = w

\* C2: every printed small entry is its label, spaces up to small_entry_width
\* display columns, " | ", the content and a line feed, so that the separator
\* of every small entry starts at the same display column
C2_SmallEntryAligned ==
    Printed =>
        \A i \in 1..Len(ends) :
            entries[i].kind = "small" =>
                LET pre == PadToWidth(entries[i].name, small_entry_width) \o <<" ", "|", " ">>
                    seg == Segment(i)
                IN /\ IsPrefix(pre, seg)
                   /\ seg[Len(seg)] = NL
                   /\ ~entries[i].val.mc => seg = pre \o entries[i].val.text \o <<NL>>

RECURSIVE MaxSmallLabelWidth(_)
MaxSmallLabelWidth(es) ==
    IF es = <<>> THEN 0
    ELSE Max(IF Head(es).kind = "small" THEN str_width(Head(es).name) ELSE 0,
             MaxSmallLabelWidth(Tail(es)))

\* C3: small_entry_width is the largest display width among the labels of the
\* small entries appended so far (0 without any), it never decreases, and an
\* append of a block or blank entry leaves it unchanged
C3_SmallEntryWidth ==
    /\ [](small_entry_width = MaxSmallLabelWidth(entries))
    /\ [][small_entry_width' >= small_entry_width]_vars
    /\ [][(Len(entries') = Len(entries) + 1 /\ entries'[Len(entries')].kind # "small")
            => small_entry_width' = small_entry_width]_vars

\* a narrower label appended after a wider one: the width stays the wider one's
C3_Witness ==
    /\ Len(entries) = 2
    /\ entries[1].kind = "small" /\ entries[1].name = <<"a", "b", "c">>
    /\ entries[2].kind = "small" /\ entries[2].name = <<"W">>
    /\ small_entry_width = 3

\* C4: McFormatContent::width returns, without failing, the display width of
\* the widest line of s after its sentinel+code pairs are removed
C4_WidthIsStrippedWidth ==
    (pc = "done" /\ ret.op = "width") => (ret.st = "Ok" /\ ret.val = StrippedWidth(s))

Writer == pc = "done" /\ ret.op \in {"write_to", "print_mc_formatted"}

\* C5: on a sink that accepts everything, what the styled writer wrote, its
\* terminal commands removed, is s with every sentinel+code pair removed
C5_RoundTrip ==
    (Writer /\ ~sink.bounded) =>
        (ret.st = "Ok" /\ RemoveCommands(sink.data) = remove_formatting(s))

\* C6: on a sink that accepts everything, the styled writer writes the first
\* segment before any command, ends with a reset exactly when s holds a
\* sentinel, and writes exactly s when s holds none
C6_ResetIffCodes ==
    (Writer /\ ~sink.bounded) =>
        /\ IsPrefix(Head(split(s, SENTINEL)), sink.data)
        /\ (sink.data # <<>> /\ sink.data[Len(sink.data)] = ResetColor) <=> Count(s, SENTINEL) > 0
        /\ Count(s, SENTINEL) = 0 => (ret.st = "Ok" /\ sink.data = s)

Recognized == DOMAIN Colors \cup DOMAIN Attributes \cup {"r"}

\* C7: a sentinel followed by a character that is no recognized code is
\* dropped with that character: the writer succeeds, writes the text around
\* them unchanged and no command but the final reset
C7_UnknownCodeInert ==
    (Writer /\ ~sink.bounded /\ Count(s, SENTINEL) = 1) =>
        \A i \in 1..(Len(s) - 1) :
            (s[i] = SENTINEL /\ s[i + 1] \notin Recognized) =>
                /\ ret.st = "Ok"
                /\ sink.data = SubSeq(s, 1, i - 1) \o SubSeq(s, i + 2, Len(s)) \o <<ResetColor>>

\* all that entry e writes when nothing stops it
EntryBytes(e) == TableEntry_print(e, small_entry_width, overflow_checks, VecSink).data

C9_BlankIsOneNewline ==
    (Printed /\ ret.st = "Ok") =>
        \A i \in 1..Len(entries) :
            entries[i].kind = "blank" => (i <= Len(ends) /\ Segment(i) = <<NL>>)

RECURSIVE JoinLines(_)
JoinLines(ts) ==
    IF ts = <<>> THEN <<>>
    ELSE IF Len(ts) = 1 THEN Head(ts)
    ELSE Head(ts) \o <<NL>> \o JoinLines(Tail(ts))

\* C10: without the second column get_table returns the left values joined
\* by line feeds; with it, one line per pair: the left value padded to the
\* display width of the widest left value, " | ", the right value
C10_GetTable ==
    (pc = "done" /\ ret.op = "get_table") =>
        /\ ret.st = "Ok"
        /\ ret.text =
              IF second_column
              THEN LET w == SeqMax(MapWidth(Lefts(pairs)))
                   IN Flatten([i \in 1..Len(pairs) |->
                          PadToWidth(pairs[i][1], w) \o <<" ", "|", " ">> \o pairs[i][2] \o <<NL>>])
              ELSE JoinLines(Lefts(pairs))

\* C11: the header of a block entry is its label centred between "="
\* characters: floor((width - label width) / 2) of them before the label and
\* the rest of the width after it, the odd one on the right; then come the
\* content as given, a line feed and a closing line of width "=" characters
C11_HeaderCentred ==
    Printed =>
        \A i \in 1..Len(ends) :
            (entries[i].kind = "big" /\ ~entries[i].val.mc) =>
                LET label == str_width(entries[i].name)
                    w == Max(label + 4, DisplayWidth(entries[i].val))
                    left == (w - label) \div 2
                IN Segment(i) =
                       Repeat("=", left) \o entries[i].name \o Repeat("=", w - label - left)
                       \o <<NL>> \o entries[i].val.text \o <<NL>> \o Repeat("=", w) \o <<NL>>

====
